---- MODULE Spec2Model ----
(***************************************************************************)
(* A model of mmpas.py, the Streamlit page "Nearby Training & Schools +    *)
(* Events".  The page is one sequential script that Streamlit re-executes  *)
(* from its first line on every sidebar interaction.  The model follows    *)
(* the script statement group by statement group (pc), with the paginated  *)
(* place search (nearby_search / one_call), the ranking (rating_key) and   *)
(* the marker projection (to_marker) translated from their code.           *)
(*                                                                         *)
(* A Python dict is a TLA+ function whose DOMAIN holds the keys present;   *)
(* an insertion-ordered dict keyed by place_id is the sequence of its      *)
(* values.  Coordinates are fixed-point integers (degrees * 10^4).         *)
(***************************************************************************)
EXTENDS Integers, Sequences, FiniteSets, TLC

VARIABLES
    pc,                 \* position of the running script
    run,                \* number of the current script run
    API_KEY,            \* st.secrets.get("GOOGLE_MAPS_API_KEY", "")
    HAS_GEO,            \* whether streamlit_geolocation could be imported
    loc,                \* value geolocation() gives in this run
    locate,             \* value st.button("Locate") gives in this run
    lat, lng, got_loc,  \* the search centre being established
    selected,           \* multiselect "Choose categories"
    extra_kw,           \* text input "Extra keyword (optional)"
    max_pages,          \* select_slider "Pages per type"
    auto_search_links,  \* checkbox "Auto-search event links"
    all_results,        \* nearby_search: dict place_id -> record, in insertion order
    ti,                 \* nearby_search: index of the next element of types
    kws, ki,            \* nearby_search: keyword list of the training branch, next index
    ret,                \* loop that the running one_call returns to
    page, next_token,   \* one_call: locals
    results,            \* value returned by nearby_search
    results_sorted,     \* sorted(results, key=rating_key)
    place_markers,      \* markers built so far
    map_center,         \* centre written into MAP_HTML
    net,                \* history: kinds of network request issued in this run
    queries,            \* history: parameters of every one_call started in this run
    seen_log,           \* history: records with an id merged from accepted pages, in arrival order
    accepted,           \* history: pages accepted by the running one_call
    retries,            \* history: re-issues of the current page request
    geo_reply,          \* history: << payload >> once geocoding answered in this run
    geocoded_before     \* history: geocoding gave a result in an earlier run

vars == << pc, run, API_KEY, HAS_GEO, loc, locate, lat, lng, got_loc, selected,
           extra_kw, max_pages, auto_search_links, all_results, ti, kws, ki, ret,
           page, next_token, results, results_sorted, place_markers, map_center,
           net, queries, seen_log, accepted, retries, geo_reply, geocoded_before >>

locVars    == << lat, lng, got_loc >>
inputVars  == << API_KEY, HAS_GEO, loc, locate, selected, extra_kw, max_pages, auto_search_links >>
searchVars == << all_results, ti, kws, ki, ret, page, next_token >>
renderVars == << results, results_sorted, place_markers, map_center >>
histVars   == << net, queries, seen_log, accepted, retries, geo_reply, geocoded_before >>

----------------------------------------------------------------------------
(* Bounds of the model *)

MaxRuns == 2        \* script runs in one behaviour
MaxTypes == 2       \* categories selected at once
MaxPageLen == 2     \* records on one upstream page
MaxRetries == 2     \* consecutive INVALID_REQUEST answers to one page request
MaxResults == 3     \* records handed to the ranking when it is checked on its own

----------------------------------------------------------------------------
(* Python values *)

None == "None"

\* bool(x) for the values the script tests: None and "" are false
Truthy(x) == x /= None /\ x /= ""

\* d.get(k, default)
Get(d, k, default) == IF k \in DOMAIN d THEN d[k] ELSE default

\* the empty dict {}
EmptyDict == << >>

\* x or y
Or(x, y) == IF Truthy(x) THEN x ELSE y

\* sequences over S of length at most n
SeqUpTo(S, n) == UNION { [1..k -> S] : k \in 0..n }

\* sequences over S of length at most n without a repeated element
DistinctSeqUpTo(S, n) ==
    { s \in SeqUpTo(S, n) : \A i, j \in 1..Len(s) : i /= j => s[i] /= s[j] }

----------------------------------------------------------------------------
(* Config *)

CATEGORIES == << "school", "university", "secondary_school", "primary_school", "library" >>

TRAINING_KEYWORDS ==
    << "training center", "academy", "bootcamp", "coaching center",
       "institute", "skill development", "IELTS", "Data Science", "Python" >>

DEFAULT_LAT == 336844
DEFAULT_LNG == 730479

----------------------------------------------------------------------------
(* What the upstream place search can put on a page *)

Geometry(a, b) == [location |-> [lat |-> a, lng |-> b]]

PlaceA  == [place_id |-> "A", name |-> "Alpha", rating |-> 4, user_ratings_total |-> 10,
            geometry |-> Geometry(10, 20)]
\* the same place as served by another query: same id, other details
PlaceA2 == [place_id |-> "A", name |-> "Alpha Academy", rating |-> 5, user_ratings_total |-> 7,
            geometry |-> Geometry(10, 20)]
PlaceB  == [place_id |-> "B", name |-> "Beta", rating |-> 4, user_ratings_total |-> 10,
            geometry |-> Geometry(30, 40)]
\* a record that carries no place_id
PlaceN  == [name |-> "Nameless", rating |-> 3, user_ratings_total |-> 1,
            geometry |-> Geometry(50, 60)]

UpstreamPlaces == { PlaceA, PlaceA2, PlaceB, PlaceN }

\* a page lists a record once; two of its records may still share an id
UpstreamPages == DistinctSeqUpTo(UpstreamPlaces, MaxPageLen)

\* JSON payloads of the place search.  Only an OK answer carries records and a
\* continuation token; an error answer carries its status alone, and the body of a
\* non-2xx answer has no "status" at all.
AcceptedPayloads ==
    { [status |-> "OK", results |-> pg, next_page_token |-> tk] :
          pg \in UpstreamPages, tk \in { "tok" } }
    \cup { [status |-> "OK", results |-> pg] : pg \in UpstreamPages }
    \cup { [status |-> "ZERO_RESULTS", results |-> << >>] }

RejectedPayloads ==
    { [status |-> "INVALID_REQUEST"], [status |-> "OVER_QUERY_LIMIT"], EmptyDict }

\* requests.get(...) / resp.json() raising instead of returning
Failures == { "timeout", "malformed_json" }

----------------------------------------------------------------------------
(* nearby_search *)

\* pid not in all_results
NotIn(pid, all) == \A i \in 1..Len(all) : all[i].place_id /= pid

RECURSIVE Merge(_, _)
MergeLastWins(all, pg) ==
    IF pg = << >> THEN all
    ELSE LET pl  == Head(pg)
             pid == Get(pl, "place_id", None)
         IN  IF ~Truthy(pid) THEN Merge(all, Tail(pg))
             ELSE IF NotIn(pid, all) THEN Merge(Append(all, pl), Tail(pg))
             ELSE Merge([i \in 1..Len(all) |->
                            IF all[i].place_id = pid THEN pl ELSE all[i]], Tail(pg))

\* for pl in payload.get("results", []): ... all_results[pid] = pl
Merge(all, pg) ==
    IF pg = << >> THEN all
    ELSE LET pl  == Head(pg)
             pid == Get(pl, "place_id", None)
         IN  IF Truthy(pid) /\ NotIn(pid, all)
             THEN Merge(Append(all, pl), Tail(pg))
             ELSE Merge(all, Tail(pg))

\* if not next_token or page >= max_pages: break
LastPageOffByOne(tok, pg, mp) == ~Truthy(tok) \/ pg > mp

LastPage(tok, pg, mp) == ~Truthy(tok) \/ pg >= mp

\* payload.get("status") not in ("OK", "ZERO_RESULTS")
Rejected(payload) == Get(payload, "status", None) \notin { "OK", "ZERO_RESULTS" }

\* payload.get("status") == "INVALID_REQUEST" and next_token
RetryWanted(payload, tok) == Get(payload, "status", None) = "INVALID_REQUEST" /\ Truthy(tok)

\* extra_kw.strip(), on the texts the model types into the box
Strip(s) == IF s = " " THEN "" ELSE s

\* keyword=extra_kw.strip() or None
Keyword(kw) == Or(Strip(kw), None)

KeywordListAlwaysBuiltin(keyword) == TRAINING_KEYWORDS

\* [keyword] if keyword else TRAINING_KEYWORDS
KeywordList(keyword) == IF Truthy(keyword) THEN << keyword >> ELSE TRAINING_KEYWORDS

\* params of the query of one category token
TypeParams(t, keyword) ==
    IF Truthy(keyword)
    THEN [location |-> << lat, lng >>, type |-> t, keyword |-> keyword]
    ELSE [location |-> << lat, lng >>, type |-> t]

\* params of the query of one keyword of the training branch
KeywordParams(kw) == [location |-> << lat, lng >>, type |-> "establishment", keyword |-> kw]

\* one_call(params): its locals as the loop is entered
StartCall(params, back) ==
    /\ queries' = Append(queries, params)
    /\ page' = 0
    /\ next_token' = None
    /\ accepted' = 0
    /\ retries' = 0
    /\ ret' = back
    /\ pc' = "call"

\* results = nearby_search(lat, lng, radius_m, selected, keyword=..., max_pages=max_pages)
BeginSearch ==
    /\ pc = "search"
    /\ all_results' = << >>
    /\ ti' = 1
    /\ pc' = "types"
    /\ UNCHANGED << run, locVars, inputVars, kws, ki, ret, page, next_token, renderVars, histVars >>

\* for t in types: ... one_call(params)
NextType ==
    /\ pc = "types"
    /\ ti <= Len(selected)
    /\ ti' = ti + 1
    /\ StartCall(TypeParams(selected[ti], Keyword(extra_kw)), "types")
    /\ UNCHANGED << run, locVars, inputVars, all_results, kws, ki, renderVars,
                    net, seen_log, geo_reply, geocoded_before >>

\* if "training_like" in types: for kw in (...)
TypesDone ==
    /\ pc = "types"
    /\ ti > Len(selected)
    /\ IF \E i \in 1..Len(selected) : selected[i] = "training_like"
       THEN /\ kws' = KeywordList(Keyword(extra_kw))
            /\ ki' = 1
            /\ pc' = "training"
       ELSE /\ pc' = "return"
            /\ UNCHANGED << kws, ki >>
    /\ UNCHANGED << run, locVars, inputVars, all_results, ti, ret, page, next_token,
                    renderVars, histVars >>

\* for kw in (...): if not kw: continue; ... one_call(params)
NextKeyword ==
    /\ pc = "training"
    /\ ki <= Len(kws)
    /\ ki' = ki + 1
    /\ IF ~Truthy(kws[ki])
       THEN UNCHANGED << pc, ret, page, next_token, queries, accepted, retries >>
       ELSE StartCall(KeywordParams(kws[ki]), "training")
    /\ UNCHANGED << run, locVars, inputVars, all_results, ti, kws, renderVars,
                    net, seen_log, geo_reply, geocoded_before >>

TrainingDone ==
    /\ pc = "training"
    /\ ki > Len(kws)
    /\ pc' = "return"
    /\ UNCHANGED << run, locVars, inputVars, searchVars, renderVars, histVars >>

\* one iteration of one_call's loop in which requests.get or resp.json() raises:
\* nothing catches it in one_call, nearby_search or the script
CallRaises ==
    /\ pc = "call"
    /\ \E f \in Failures : pc' = "crashed"
    /\ net' = net \cup { "nearby" }
    /\ UNCHANGED << run, locVars, inputVars, searchVars, renderVars,
                    queries, seen_log, accepted, retries, geo_reply, geocoded_before >>

\* one iteration whose payload has a status other than OK / ZERO_RESULTS
CallRejected ==
    /\ pc = "call"
    /\ \E payload \in RejectedPayloads :
         /\ Rejected(payload)
         /\ IF RetryWanted(payload, next_token)
            THEN \* time.sleep(2); continue
                 /\ retries < MaxRetries
                 /\ retries' = retries + 1
                 /\ pc' = "call"
            ELSE \* break
                 /\ pc' = ret
                 /\ UNCHANGED retries
    /\ net' = net \cup { "nearby" }
    /\ UNCHANGED << run, locVars, inputVars, searchVars, renderVars,
                    queries, seen_log, accepted, geo_reply, geocoded_before >>

\* the records of pg that carry an id and are not yet in the log, in page order
RECURSIVE Logged(_, _)
Logged(log, pg) ==
    IF pg = << >> THEN log
    ELSE IF "place_id" \in DOMAIN Head(pg) /\ \A i \in 1..Len(log) : log[i] /= Head(pg)
         THEN Logged(Append(log, Head(pg)), Tail(pg))
         ELSE Logged(log, Tail(pg))

\* one iteration whose payload is accepted: merge, take the token, count the page
CallAccepted ==
    /\ pc = "call"
    /\ \E payload \in AcceptedPayloads :
         /\ ~Rejected(payload)
         /\ all_results' = Merge(all_results, Get(payload, "results", << >>))
         /\ seen_log' = Logged(seen_log, Get(payload, "results", << >>))
         /\ next_token' = Get(payload, "next_page_token", None)
         /\ page' = page + 1
         /\ pc' = IF LastPage(next_token', page', max_pages) THEN ret ELSE "call"
    /\ accepted' = accepted + 1
    /\ retries' = 0
    /\ net' = net \cup { "nearby" }
    /\ UNCHANGED << run, locVars, inputVars, ti, kws, ki, ret, renderVars,
                    queries, geo_reply, geocoded_before >>

\* return list(all_results.values())
Return ==
    /\ pc = "return"
    /\ results' = all_results
    /\ pc' = "sort"
    /\ UNCHANGED << run, locVars, inputVars, searchVars, results_sorted, place_markers,
                    map_center, histVars >>

SearchNext ==
    \/ BeginSearch
    \/ NextType
    \/ TypesDone
    \/ NextKeyword
    \/ TrainingDone
    \/ CallRaises
    \/ CallRejected
    \/ CallAccepted
    \/ Return

----------------------------------------------------------------------------
(* Ranking and markers *)

\* tuple comparison a < b of two rating keys
KeyLess(a, b) == a[1] < b[1] \/ (a[1] = b[1] /\ a[2] < b[2])

rating_keyNoTotal(p) == << 0 - Get(p, "rating", 0), 0 >>

\* return (-p.get("rating", 0), -p.get("user_ratings_total", 0))
rating_key(p) == << 0 - Get(p, "rating", 0), 0 - Get(p, "user_ratings_total", 0) >>

\* x put into the sorted sequence s behind every element whose key is not greater
RECURSIVE Insert(_, _)
Insert(s, x) ==
    IF s = << >> THEN << x >>
    ELSE IF KeyLess(rating_key(x), rating_key(Head(s)))
         THEN << x >> \o s
         ELSE << Head(s) >> \o Insert(Tail(s), x)

\* sorted(s, key=rating_key): ascending in the key, stable
RECURSIVE Sorted(_)
Sorted(s) == IF s = << >> THEN << >>
             ELSE Insert(Sorted(SubSeq(s, 1, Len(s) - 1)), s[Len(s)])

fmt_opening_hours(ph) ==
    IF ph = EmptyDict THEN ""
    ELSE IF Get(ph, "open_now", FALSE) = TRUE THEN "Open now" ELSE "Closed now"

\* f"https://www.google.com/maps/place/?q=place_id:{place_id}"
gmaps_place_link(place_id) == << "https://www.google.com/maps/place/?q=place_id:", place_id >>

to_markerSwapped(p, found_event_link) ==
    LET l == Get(Get(p, "geometry", EmptyDict), "location", EmptyDict)
    IN  [lat |-> Get(l, "lng", None), lng |-> Get(l, "lat", None),
         name |-> Get(p, "name", "Untitled"),
         addr |-> Or(Get(p, "vicinity", None), Or(Get(p, "formatted_address", None), "")),
         rating |-> Get(p, "rating", ""), total |-> Get(p, "user_ratings_total", ""),
         open |-> fmt_opening_hours(Get(p, "opening_hours", EmptyDict)),
         gmaps_link |-> gmaps_place_link(Get(p, "place_id", "")),
         event_link |-> Or(found_event_link, "")]

to_marker(p, found_event_link) ==
    LET l == Get(Get(p, "geometry", EmptyDict), "location", EmptyDict)
    IN  [lat |-> Get(l, "lat", None), lng |-> Get(l, "lng", None),
         name |-> Get(p, "name", "Untitled"),
         addr |-> Or(Get(p, "vicinity", None), Or(Get(p, "formatted_address", None), "")),
         rating |-> Get(p, "rating", ""), total |-> Get(p, "user_ratings_total", ""),
         open |-> fmt_opening_hours(Get(p, "opening_hours", EmptyDict)),
         gmaps_link |-> gmaps_place_link(Get(p, "place_id", "")),
         event_link |-> Or(found_event_link, "")]

\* what place_details returns: the "result" of an OK answer, or {} on any failure
\* (its own try/except catches a raising request)
DetailsResults == { EmptyDict, [name |-> "x"], [website |-> "site.example"],
                    [url |-> "maps.example"] }

\* what find_event_links_on_site returns: at most max_links=3 links, [] on any failure
LinkLists == { << >>, << "site.example/events" >>,
               << "site.example/apply", "site.example/events" >> }

\* results_sorted = sorted(results, key=rating_key)
Sort ==
    /\ pc = "sort"
    /\ results_sorted' = Sorted(results)
    /\ place_markers' = << >>
    /\ pc' = "markers"
    /\ UNCHANGED << run, locVars, inputVars, searchVars, results, map_center, histVars >>

\* one iteration of "for p in results_sorted"
MarkerStep ==
    /\ pc = "markers"
    /\ Len(place_markers) < Len(results_sorted)
    /\ LET p        == results_sorted[Len(place_markers) + 1]
           place_id == Get(p, "place_id", None)
       IN  IF auto_search_links /\ Truthy(place_id)
           THEN \E details \in DetailsResults :
                  LET website == Or(Get(details, "website", None), Get(details, "url", None))
                  IN  IF Truthy(website)
                      THEN \E found_links \in LinkLists :
                             /\ place_markers' = Append(place_markers,
                                   to_marker(p, IF found_links /= << >> THEN found_links[1] ELSE ""))
                             /\ net' = net \cup { "details", "scrape" }
                      ELSE /\ place_markers' = Append(place_markers, to_marker(p, ""))
                           /\ net' = net \cup { "details" }
           ELSE /\ place_markers' = Append(place_markers, to_marker(p, ""))
                /\ UNCHANGED net
    /\ UNCHANGED << pc, run, locVars, inputVars, searchVars, results, results_sorted, map_center,
                    queries, seen_log, accepted, retries, geo_reply, geocoded_before >>

\* MAP_HTML: const center = {lat: {lat}, lng: {lng}}; const places = place_markers
Render ==
    /\ pc = "markers"
    /\ Len(place_markers) = Len(results_sorted)
    /\ map_center' = << lat, lng >>
    /\ pc' = "rendered"
    /\ UNCHANGED << run, locVars, inputVars, searchVars, results, results_sorted,
                    place_markers, histVars >>

RenderNext ==
    \/ Sort
    \/ MarkerStep
    \/ Render

----------------------------------------------------------------------------
(* The script up to the search *)

DeviceLocations == { EmptyDict, [error |-> "denied"], [latitude |-> 515074, longitude |-> 1278] }

\* JSON payloads of the geocoder
GeocodePayloads ==
    { [status |-> "OK",
       results |-> << [geometry |-> Geometry(407128, 740060), formatted_address |-> "New York"] >>],
      [status |-> "OK",
       results |-> << [geometry |-> Geometry(488566, 23522)],
                      [geometry |-> Geometry(336609, 955555), formatted_address |-> "Paris, TX"] >>],
      [status |-> "OK", results |-> << >>],
      [status |-> "ZERO_RESULTS", results |-> << >>],
      [status |-> "REQUEST_DENIED"],
      EmptyDict }

\* the value of a geocode_address that found nothing (None in the script; the
\* script only tests it with "if out")
NotFound == << >>

geocode_addressOrigin(data, addr) ==
    IF Get(data, "status", None) /= "OK" \/ Get(data, "results", << >>) = << >>
    THEN << 0, 0, addr >>
    ELSE LET res == data.results[1]
         IN  << res.geometry.location.lat, res.geometry.location.lng,
                Get(res, "formatted_address", addr) >>

\* geocode_address, from the parsed payload on
geocode_address(data, addr) ==
    IF Get(data, "status", None) /= "OK" \/ Get(data, "results", << >>) = << >>
    THEN NotFound
    ELSE LET res == data.results[1]
         IN  << res.geometry.location.lat, res.geometry.location.lng,
                Get(res, "formatted_address", addr) >>

KeyCheckSkipped(key) == FALSE

\* if not API_KEY
KeyMissing(key) == ~Truthy(key)

\* API_KEY = st.secrets.get(...); if not API_KEY: st.error(...); st.stop()
CheckKey ==
    /\ pc = "start"
    /\ pc' = IF KeyMissing(API_KEY) THEN "stopped" ELSE "sidebar"
    /\ UNCHANGED << run, locVars, inputVars, searchVars, renderVars, histVars >>

SidebarStartKeeps ==
    /\ pc = "sidebar"
    /\ pc' = "device"
    /\ UNCHANGED << run, locVars, inputVars, searchVars, renderVars, histVars >>

\* lat = lng = None; got_loc = False
SidebarStart ==
    /\ pc = "sidebar"
    /\ lat' = None
    /\ lng' = None
    /\ got_loc' = FALSE
    /\ pc' = "device"
    /\ UNCHANGED << run, inputVars, searchVars, renderVars, histVars >>

\* loc and "latitude" in loc and "longitude" in loc, under "if HAS_GEO"
DeviceAvailable ==
    HAS_GEO /\ loc /= EmptyDict /\ "latitude" \in DOMAIN loc /\ "longitude" \in DOMAIN loc

\* if HAS_GEO: loc = geolocation(); if loc and ...: lat = ...; lng = ...; got_loc = True
DeviceLocation ==
    /\ pc = "device"
    /\ IF DeviceAvailable
       THEN /\ lat' = loc.latitude
            /\ lng' = loc.longitude
            /\ got_loc' = TRUE
       ELSE UNCHANGED locVars
    /\ pc' = "address"
    /\ UNCHANGED << run, inputVars, searchVars, renderVars, histVars >>

\* st.button("Locate") is False in this run
LocateSkip ==
    /\ pc = "address"
    /\ ~locate
    /\ pc' = "fallback"
    /\ UNCHANGED << run, locVars, inputVars, searchVars, renderVars, histVars >>

\* if st.button("Locate"): out = geocode_address(addr); if out: ... else: st.error(...)
Locate ==
    /\ pc = "address"
    /\ locate
    /\ \E data \in GeocodePayloads :
         LET out == geocode_address(data, "Islamabad, Pakistan")
         IN  /\ IF out /= NotFound
                THEN /\ lat' = out[1]
                     /\ lng' = out[2]
                     /\ got_loc' = TRUE
                ELSE UNCHANGED locVars
             /\ geo_reply' = << data >>
    /\ net' = net \cup { "geocode" }
    /\ pc' = "fallback"
    /\ UNCHANGED << run, inputVars, searchVars, renderVars, queries, seen_log,
                    accepted, retries, geocoded_before >>

\* requests.get or r.json() raises inside geocode_address: nothing catches it
LocateRaises ==
    /\ pc = "address"
    /\ locate
    /\ \E f \in Failures : pc' = "crashed"
    /\ net' = net \cup { "geocode" }
    /\ UNCHANGED << run, locVars, inputVars, searchVars, renderVars, queries, seen_log,
                    accepted, retries, geo_reply, geocoded_before >>

\* if not got_loc: lat, lng = 33.6844, 73.0479
Fallback ==
    /\ pc = "fallback"
    /\ IF ~got_loc
       THEN /\ lat' = DEFAULT_LAT
            /\ lng' = DEFAULT_LNG
            /\ UNCHANGED got_loc
       ELSE UNCHANGED locVars
    /\ pc' = "search"
    /\ UNCHANGED << run, inputVars, searchVars, renderVars, histVars >>

----------------------------------------------------------------------------
(* Inputs *)

\* options=["training_like"] + list(CATEGORIES.keys()), the first three of them
Tokens == { "training_like", CATEGORIES[1], CATEGORIES[2] }

Selections == DistinctSeqUpTo(Tokens, MaxTypes)

ExtraKeywords == { "", " ", "yoga" }

PageOptions == { 1, 2, 3 }

\* the script about to call nearby_search, with any sidebar input
SearchInit ==
    /\ pc = "search"
    /\ run = 1
    /\ API_KEY = "key"
    /\ HAS_GEO = FALSE
    /\ loc = EmptyDict
    /\ locate = FALSE
    /\ lat = DEFAULT_LAT /\ lng = DEFAULT_LNG /\ got_loc = FALSE
    /\ selected \in Selections
    /\ extra_kw \in ExtraKeywords
    /\ max_pages \in PageOptions
    /\ auto_search_links = FALSE
    /\ all_results = << >>
    /\ ti = 1 /\ kws = << >> /\ ki = 1 /\ ret = "types"
    /\ page = 0 /\ next_token = None
    /\ results = << >> /\ results_sorted = << >> /\ place_markers = << >>
    /\ map_center = None
    /\ net = {} /\ queries = << >> /\ seen_log = << >>
    /\ accepted = 0 /\ retries = 0
    /\ geo_reply = << >> /\ geocoded_before = FALSE

SearchSpec == SearchInit /\ [][SearchNext]_vars

\* results as nearby_search can return them: every record with an id, no id twice
PlaceC == [place_id |-> "C", geometry |-> Geometry(70, 80)]
PlaceD == [place_id |-> "D", name |-> "Delta", rating |-> 4, user_ratings_total |-> 20,
           vicinity |-> "1 Main St", opening_hours |-> [open_now |-> TRUE]]
PlaceE == [place_id |-> "E", name |-> "", rating |-> 0, user_ratings_total |-> 0,
           geometry |-> Geometry(90, 100), formatted_address |-> "2 Side St",
           opening_hours |-> [open_now |-> FALSE]]

RankedPlaces == { PlaceA, PlaceA2, PlaceB, PlaceC, PlaceD, PlaceE }

ResultLists ==
    { s \in DistinctSeqUpTo(RankedPlaces, MaxResults) :
        \A i, j \in 1..Len(s) : i /= j => s[i].place_id /= s[j].place_id }

\* the script just after nearby_search returned
RenderInit ==
    /\ pc = "sort"
    /\ run = 1
    /\ API_KEY = "key"
    /\ HAS_GEO = FALSE
    /\ loc = EmptyDict
    /\ locate = FALSE
    /\ lat = DEFAULT_LAT /\ lng = DEFAULT_LNG /\ got_loc = FALSE
    /\ selected = << "school" >>
    /\ extra_kw = ""
    /\ max_pages = 1
    /\ auto_search_links \in BOOLEAN
    /\ results \in ResultLists
    /\ all_results = results
    /\ ti = 2 /\ kws = << >> /\ ki = 1 /\ ret = "types"
    /\ page = 1 /\ next_token = None
    /\ results_sorted = << >> /\ place_markers = << >>
    /\ map_center = None
    /\ net = { "nearby" }
    /\ queries = << TypeParams("school", None) >>
    /\ seen_log = results
    /\ accepted = 1 /\ retries = 0
    /\ geo_reply = << >> /\ geocoded_before = FALSE

RenderSpec == RenderInit /\ [][RenderNext]_vars

\* the sidebar inputs of the runs of the whole script
ScriptInputs ==
    { [selected |-> << >>, extra_kw |-> "", max_pages |-> 1, auto_search_links |-> FALSE],
      [selected |-> << "school" >>, extra_kw |-> " ", max_pages |-> 2, auto_search_links |-> TRUE],
      [selected |-> << "training_like" >>, extra_kw |-> "yoga", max_pages |-> 1,
       auto_search_links |-> FALSE] }

\* the widget values of one run
RunInputs ==
    /\ loc' \in (IF HAS_GEO THEN DeviceLocations ELSE { EmptyDict })
    /\ locate' \in BOOLEAN
    /\ \E inp \in ScriptInputs :
         /\ selected' = inp.selected
         /\ extra_kw' = inp.extra_kw
         /\ max_pages' = inp.max_pages
         /\ auto_search_links' = inp.auto_search_links

\* a sidebar interaction: Streamlit runs the script again from its first line, in a
\* fresh namespace; lat, lng and got_loc are left to the script's own lines 197-198
Rerun ==
    /\ pc \in { "stopped", "rendered", "crashed" }
    /\ run < MaxRuns
    /\ run' = run + 1
    /\ pc' = "start"
    /\ RunInputs
    /\ all_results' = << >>
    /\ ti' = 1 /\ kws' = << >> /\ ki' = 1 /\ ret' = "types"
    /\ page' = 0 /\ next_token' = None
    /\ results' = << >> /\ results_sorted' = << >> /\ place_markers' = << >>
    /\ map_center' = None
    /\ net' = {} /\ queries' = << >> /\ seen_log' = << >>
    /\ accepted' = 0 /\ retries' = 0
    /\ geo_reply' = << >>
    /\ geocoded_before' =
          (geocoded_before \/ (geo_reply /= << >> /\ Get(geo_reply[1], "results", << >>) /= << >>))
    /\ UNCHANGED << API_KEY, HAS_GEO, locVars >>

Init ==
    /\ pc = "start"
    /\ run = 1
    /\ API_KEY \in { "", "key" }
    /\ HAS_GEO \in BOOLEAN
    /\ loc \in (IF HAS_GEO THEN DeviceLocations ELSE { EmptyDict })
    /\ locate \in BOOLEAN
    /\ lat = None /\ lng = None /\ got_loc = FALSE
    /\ \E inp \in ScriptInputs :
         /\ selected = inp.selected
         /\ extra_kw = inp.extra_kw
         /\ max_pages = inp.max_pages
         /\ auto_search_links = inp.auto_search_links
    /\ all_results = << >>
    /\ ti = 1 /\ kws = << >> /\ ki = 1 /\ ret = "types"
    /\ page = 0 /\ next_token = None
    /\ results = << >> /\ results_sorted = << >> /\ place_markers = << >>
    /\ map_center = None
    /\ net = {} /\ queries = << >> /\ seen_log = << >>
    /\ accepted = 0 /\ retries = 0
    /\ geo_reply = << >> /\ geocoded_before = FALSE

Next ==
    \/ CheckKey
    \/ SidebarStart
    \/ DeviceLocation
    \/ LocateSkip
    \/ Locate
    \/ LocateRaises
    \/ Fallback
    \/ SearchNext
    \/ RenderNext
    \/ Rerun

Spec == Init /\ [][Next]_vars

----------------------------------------------------------------------------
(* Properties *)

\* the script is past line 220: the centre is settled
AfterFallback == { "search", "types", "training", "call", "return", "sort", "markers", "rendered" }

\* nearby_search has returned
Returned == pc \in { "sort", "markers", "rendered" }

DefaultCentre == << DEFAULT_LAT, DEFAULT_LNG >>

\* the first record of each place_id of a log, in the order of the log
RECURSIVE FirstPerId(_)
FirstPerId(log) ==
    IF log = << >> THEN << >>
    ELSE LET r == FirstPerId(SubSeq(log, 1, Len(log) - 1))
             x == log[Len(log)]
         IN  IF \E i \in 1..Len(r) : r[i].place_id = x.place_id THEN r ELSE Append(r, x)

\* C1: the list nearby_search builds, and the list it returns, holds exactly one
\* record for every place_id that arrived on an accepted page, namely the first
\* record that arrived with that id, in order of first arrival.
C1_FirstSeenWins ==
    /\ all_results = FirstPerId(seen_log)
    /\ Returned => results = FirstPerId(seen_log)

\* C1 witness: nearby_search returned two places after a second, different record
\* of an already stored place_id arrived.
C1_Witness ==
    /\ pc = "sort"
    /\ Len(results) = 2
    /\ \E i, j \in 1..Len(seen_log) :
         i < j /\ seen_log[i].place_id = seen_log[j].place_id /\ seen_log[i] /= seen_log[j]

Rating(p) == IF "rating" \in DOMAIN p THEN p.rating ELSE 0
Total(p) == IF "user_ratings_total" \in DOMAIN p THEN p.user_ratings_total ELSE 0
PosIn(s, p) == CHOOSE i \in 1..Len(s) : s[i] = p

\* C2: results_sorted is results reordered so that a higher rating comes first,
\* among equal ratings a higher user_ratings_total comes first, and records equal on
\* both keep the order of results (a missing value counting as 0); place_markers
\* follows results_sorted record by record.
C2_SortedByRating ==
    pc \in { "markers", "rendered" } =>
      /\ Len(results_sorted) = Len(results)
      /\ \A i \in 1..Len(results) : \E j \in 1..Len(results_sorted) : results_sorted[j] = results[i]
      /\ \A i, j \in 1..Len(results_sorted) :
           i < j =>
             LET a == results_sorted[i]
                 b == results_sorted[j]
             IN  /\ Rating(a) >= Rating(b)
                 /\ Rating(a) = Rating(b) => Total(a) >= Total(b)
                 /\ (Rating(a) = Rating(b) /\ Total(a) = Total(b))
                      => PosIn(results, a) < PosIn(results, b)
      /\ Len(place_markers) <= Len(results_sorted)
      /\ pc = "rendered" => Len(place_markers) = Len(results_sorted)
      /\ \A i \in 1..Len(place_markers) :
           place_markers[i].gmaps_link[2] = results_sorted[i].place_id

\* C2 witness: three records, one unrated and two tied on both keys, were reordered.
C2_Witness ==
    /\ pc = "rendered"
    /\ results = << PlaceC, PlaceB, PlaceA >>
    /\ results_sorted = << PlaceB, PlaceA, PlaceC >>
    /\ Len(place_markers) = 3

\* geocoding answered in this run and the answer holds no result
GeocodedNothing == geo_reply /= << >> /\ Get(geo_reply[1], "results", << >>) = << >>

\* C3: in a run without device location whose geocoding query found nothing, the
\* centre is the default pair, every place-search query is centred there and so is
\* the rendered map.
C3_DefaultCentreFallback ==
    (pc \in AfterFallback /\ ~DeviceAvailable /\ locate /\ GeocodedNothing) =>
      /\ << lat, lng >> = DefaultCentre
      /\ \A i \in 1..Len(queries) : queries[i].location = DefaultCentre
      /\ pc = "rendered" => map_center = DefaultCentre

\* C3 witness: such a run searched and rendered.
C3_Witness ==
    /\ pc = "rendered"
    /\ ~DeviceAvailable /\ locate /\ GeocodedNothing
    /\ Len(queries) >= 1
    /\ map_center = DefaultCentre

\* C4: with GOOGLE_MAPS_API_KEY absent or empty the run goes from its start to
\* st.stop() and issues no network request of any kind.
C4_NoKeyNoNetwork ==
    ~Truthy(API_KEY) => (pc \in { "start", "stopped" } /\ net = {})

\* C4 witness: a run without key was halted.
C4_Witness == ~Truthy(API_KEY) /\ pc = "stopped"

\* C5: no failure of an upstream call of geocode_address or nearby_search leaves
\* the call as an exception, so no run ends in an uncaught exception.
C5_FailureCaught == pc /= "crashed"

\* the location and name a record holds, None where it holds none
PlaceLocation(p) ==
    IF "geometry" \in DOMAIN p /\ "location" \in DOMAIN p.geometry
    THEN p.geometry.location ELSE EmptyDict

\* C6 as stated: every marker carries the lat, lng and name of its record.
C6_MarkerPreservesAll ==
    \A i \in 1..Len(place_markers) :
      LET p == results_sorted[i]
          m == place_markers[i]
      IN  /\ m.lat = Get(PlaceLocation(p), "lat", None)
          /\ m.lng = Get(PlaceLocation(p), "lng", None)
          /\ m.name = Get(p, "name", None)

\* C6: every marker carries the lat and lng of its record and, when the record has a
\* name, that name unchanged; the marker of a record without name is named
\* "Untitled".  The event link found has no influence.
C6_MarkerPreserves ==
    \A i \in 1..Len(place_markers) :
      LET p == results_sorted[i]
          m == place_markers[i]
      IN  /\ m.lat = Get(PlaceLocation(p), "lat", None)
          /\ m.lng = Get(PlaceLocation(p), "lng", None)
          /\ IF "name" \in DOMAIN p THEN m.name = p.name ELSE m.name = "Untitled"

\* C6 witness: a marker with an event link was built from a record with name and
\* coordinates, and another from a record without name.
C6_Witness ==
    /\ pc = "rendered"
    /\ \E i \in 1..Len(place_markers) :
         /\ place_markers[i].event_link /= ""
         /\ "name" \in DOMAIN results_sorted[i]
         /\ "geometry" \in DOMAIN results_sorted[i]
    /\ \E i \in 1..Len(place_markers) : "name" \notin DOMAIN results_sorted[i]

\* C7: a page request rejected as INVALID_REQUEST is re-issued once only.
C7_SingleRetry == retries <= 1

\* C8: one one_call merges at most max_pages pages, and it requests a further page
\* only with the continuation token of the page accepted before.
C8_PageLimit ==
    /\ accepted <= max_pages
    /\ pc = "call" => (accepted = 0 <=> next_token = None)
    /\ pc = "call" => page = accepted

\* C8 witness: a one_call stopped at the page limit although a token was returned.
C8_Witness ==
    /\ pc \in { "types", "training" }
    /\ max_pages >= 2
    /\ accepted = max_pages
    /\ next_token /= None

HasTrainingLike == \E i \in 1..Len(selected) : selected[i] = "training_like"
KeywordGiven == extra_kw /= "" /\ extra_kw /= " "

\* C9 as stated: when nearby_search is through its loops it has started one query
\* per category token plus, with training_like selected, one per built-in keyword.
C9_QueryCountBuiltin ==
    pc \in { "return", "sort" } =>
      Len(queries) = Len(selected) + (IF HasTrainingLike THEN Len(TRAINING_KEYWORDS) ELSE 0)

\* the queries of the training branch
TrainingQueries ==
    IF ~HasTrainingLike THEN << >>
    ELSE IF KeywordGiven
         THEN << [location |-> << lat, lng >>, type |-> "establishment", keyword |-> extra_kw] >>
         ELSE [i \in 1..Len(TRAINING_KEYWORDS) |->
                 [location |-> << lat, lng >>, type |-> "establishment",
                  keyword |-> TRAINING_KEYWORDS[i]]]

\* C9: when nearby_search is through its loops it has started, in this order, one
\* query per category token and then, with training_like selected, one establishment
\* query per built-in keyword if no extra keyword is given and a single one with the
\* extra keyword if one is given.
C9_QueriesStarted ==
    pc \in { "return", "sort" } =>
      /\ Len(queries) = Len(selected) + Len(TrainingQueries)
      /\ \A i \in 1..Len(selected) :
           /\ queries[i].type = selected[i]
           /\ IF KeywordGiven THEN queries[i].keyword = extra_kw
                              ELSE "keyword" \notin DOMAIN queries[i]
      /\ \A i \in 1..Len(TrainingQueries) : queries[Len(selected) + i] = TrainingQueries[i]

\* C9 witness: a search with training_like and an extra keyword returned.
C9_Witness ==
    /\ pc = "sort"
    /\ HasTrainingLike /\ KeywordGiven
    /\ Len(selected) = 2
    /\ Len(queries) = 3

\* the centres the geocoder can give
GeoCentre(data) ==
    << data.results[1].geometry.location.lat, data.results[1].geometry.location.lng >>
GeoCentres == { GeoCentre(d) : d \in { x \in GeocodePayloads : Get(x, "results", << >>) /= << >> } }

\* C10: in every run the centre is a geocoded address only if Locate was clicked in
\* that run and the geocoder answered with that address in that run; a run without
\* device location and without a Locate click has the default centre.
C10_CentrePerRun ==
    pc \in AfterFallback =>
      /\ << lat, lng >> \in GeoCentres =>
           /\ locate
           /\ geo_reply /= << >>
           /\ Get(geo_reply[1], "results", << >>) /= << >>
           /\ << lat, lng >> = GeoCentre(geo_reply[1])
      /\ (~DeviceAvailable /\ ~locate) => << lat, lng >> = DefaultCentre

\* C10 witness: a run after a successful geocoding, with neither device location nor
\* Locate click, rendered the default centre.
C10_Witness ==
    /\ pc = "rendered"
    /\ run = 2
    /\ geocoded_before
    /\ ~DeviceAvailable /\ ~locate
    /\ map_center = DefaultCentre

====
